---- MODULE Spec2Model ----
(***************************************************************************)
(* Model of AI/transcript_whisper.py: split_file cuts a recording into     *)
(* clips on disk, get_transcript sends every file of the clip directory to *)
(* the transcription service and merges the answers, main writes the       *)
(* merged document.                                                        *)
(*                                                                         *)
(* Units.  Durations of audio are whole milliseconds, as in pydub.  A      *)
(* "seconds" value of the transcription (a Python float) is a fixed-point  *)
(* number: a whole count of ticks, TicksPerSec ticks to the second, so a   *)
(* value can carry a part smaller than a millisecond.  Binary floating     *)
(* point rounding is not modelled.                                         *)
(***************************************************************************)
EXTENDS Integers, Sequences, FiniteSets, TLC

\* ---------------------------------------------------------------- bounds
\* The recording lasts at most MaxMinutes whole minutes plus a remainder.
MaxMinutes == 2
\* split_size ranges over 1..MaxSplit minutes.
MaxSplit == 2
\* Number of invocations of main in one behaviour.
MaxRuns == 2
\* The clip directory never holds more than MaxFiles files.
MaxFiles == 3
\* Resolution of a seconds value: ticks per millisecond.
TicksPerMs == 2

TicksPerSec == 1000 * TicksPerMs

Remainders == {0, 1, 30000}
Durations == {m * 60000 + r : m \in 0..MaxMinutes, r \in Remainders} \ {0}
SplitSizes == 1..MaxSplit
Formats == {"vtt", "txt"}
Speeches == {"halves", "late"}

Min(a, b) == IF a <= b THEN a ELSE b

VARIABLES
  total_duration,  \* len(source_audio), milliseconds
  speech,          \* how the recording is spoken: what the service hears
  fs,              \* the clip directory: file name -> audio held
  out,             \* the output files: format -> the invocation that wrote
                   \* the file last (its document is that invocation's
                   \* transcription), NoFile when the file does not exist
  runs,            \* invocations of main started so far
  pc,              \* position of the running invocation
  split_size, format, only_split,   \* its arguments
  index, start_time,                \* split_file's loop
  clips,           \* names computed by split_file's loop, in order
  exports,         \* export() calls begun by this invocation
  fs0, out0,       \* directory and documents when the invocation began
  fs_returned,     \* directory when split_file returned
  audio_files, enum_index, transcription,  \* get_transcript's loop
  calls,           \* file names sent to the service by this invocation
  errors,          \* service calls of this invocation that raised
  seconds, vtt_time  \* argument and result of seconds_to_vtt_time

vars == <<total_duration, speech, fs, out, runs, pc, split_size, format, only_split,
          index, start_time, clips, exports, fs0, out0, fs_returned,
          audio_files, enum_index, transcription, calls,
          errors, seconds, vtt_time>>

NoFile == 0

\* ------------------------------------------------------- time formatting
Digit(d) == <<"0", "1", "2", "3", "4", "5", "6", "7", "8", "9">>[d + 1]

RECURSIVE Decimal(_)
Decimal(n) == IF n < 10 THEN <<Digit(n)>>
              ELSE Decimal(n \div 10) \o <<Digit(n % 10)>>

\* Python's format spec 0w on an int: at least w digits, zero-filled.
ZeroPad(n, w) ==
  LET d == Decimal(n)
  IN  IF Len(d) >= w THEN d ELSE [i \in 1..(w - Len(d)) |-> "0"] \o d

\* hours = int(seconds // 3600)
VttHours(s) == s \div (3600 * TicksPerSec)

\* minutes = int((seconds % 3600) // 60)
VttMinutes(s) == (s % (3600 * TicksPerSec)) \div (60 * TicksPerSec)

\* seconds = seconds % 60 ; int(seconds)
VttSeconds(s) == (s % (60 * TicksPerSec)) \div TicksPerSec

\* Mutant: the fraction rounded to the nearest millisecond.
VttMillisecondsRounded(s) ==
  LET sec == s % (60 * TicksPerSec)
      frac == sec - (sec \div TicksPerSec) * TicksPerSec
  IN  (frac * 1000 + TicksPerSec \div 2) \div TicksPerSec

\* milliseconds = int((seconds - int(seconds)) * 1000)
VttMilliseconds(s) ==
  LET sec == s % (60 * TicksPerSec)
      frac == sec - (sec \div TicksPerSec) * TicksPerSec
  IN  (frac * 1000) \div TicksPerSec

seconds_to_vtt_time(s) ==
  ZeroPad(VttHours(s), 2) \o <<":">> \o ZeroPad(VttMinutes(s), 2) \o <<":">>
    \o ZeroPad(VttSeconds(s), 2) \o <<".">> \o ZeroPad(VttMilliseconds(s), 3)

\* ------------------------------------------------------------ documents
\* The merged document is a sequence of items; string concatenation is \o.
Header == [kind |-> "WEBVTT", start |-> <<>>, end |-> <<>>, text |-> <<>>]
Cue(st, en, txt) == [kind |-> "cue", start |-> st, end |-> en, text |-> txt]
Word(w) == [kind |-> "word", start |-> <<>>, end |-> <<>>, text |-> <<w>>]
Words(txt) == [i \in 1..Len(txt) |-> Word(txt[i])]

\* Mutant: the offset in minutes taken for seconds.
OffsetSecondsUnscaled(offset) == offset * TicksPerSec

\* offset_seconds = offset * 60, as ticks
OffsetSeconds(offset) == offset * 60 * TicksPerSec

convert_to_vtt(segments, offset) ==
  (IF offset = 0 THEN <<Header>> ELSE <<>>)
    \o [i \in 1..Len(segments) |->
          Cue(seconds_to_vtt_time(segments[i].start + OffsetSeconds(offset)),
              seconds_to_vtt_time(segments[i].end + OffsetSeconds(offset)),
              segments[i].text)]

\* ----------------------------------------------------------- the service
\* client.audio.transcriptions.create on a file holding the audio
\* [audio.lo, audio.hi) of the recording, with clip-local times in ticks; a
\* word names the place of the recording where its segment starts.  A
\* recording spoken in "halves" gives two segments, one per half of the clip;
\* spoken "late", one segment over the last two thirds.
Transcribe(audio, sp) ==
  LET d == (audio.hi - audio.lo) * TicksPerMs
      w(t) == audio.lo * TicksPerMs + t
      seg(from, to) == [start |-> from, end |-> to, text |-> <<w(from)>>]
  IN  IF sp = "halves"
      THEN [segments |-> <<seg(0, d \div 2), seg(d \div 2, d)>>,
            text |-> <<w(0), w(d \div 2)>>]
      ELSE [segments |-> <<seg(d \div 3, d)>>, text |-> <<w(d \div 3)>>]

\* ------------------------------------------------------------ split_file
\* slice_duration = split_size * 60 * 1000
SliceDuration(s) == s * 60 * 1000

\* os.path.join(output_dir, f"{basename}_{index}_{start_time}_{end_time}.mp3")
FileName(i, st, en) == <<i, st, en>>

\* Mutant: the loop bound taken inclusive.
InRangeInclusive(st, stop) == st <= stop

\* range(0, total_duration, slice_duration) yields start while start < stop
InRange(st, stop) == st < stop

\* end_time = min(start_time + slice_duration, total_duration)
EndTime(st, slice, total) == Min(st + slice, total)

\* Mutant: the test never finds the file.
ExistsNever(dir, name) == FALSE

\* os.path.exists(output_file)
Exists(dir, name) == name \in DOMAIN dir

\* The names one run of split_file's loop computes, from (i, st) on.
RECURSIVE SplitNames(_, _, _, _)
SplitNames(i, st, slice, total) ==
  IF InRange(st, total)
  THEN {FileName(i, st, EndTime(st, slice, total))}
         \cup SplitNames(i + 1, st + slice, slice, total)
  ELSE {}

RECURSIVE Perms(_)
Perms(S) == IF S = {} THEN {<<>>}
            ELSE UNION {{<<x>> \o p : p \in Perms(S \ {x})} : x \in S}

OutputFile == FileName(index, start_time,
                       EndTime(start_time, SliceDuration(split_size),
                               total_duration))
Complete(name) == [lo |-> name[2], hi |-> name[3]]
Empty(name) == [lo |-> name[2], hi |-> name[2]]
Truncated(name) == [lo |-> name[2], hi |-> name[2] + (name[3] - name[2]) \div 2]

Stopped == pc \in {"idle", "done", "aborted", "failed"}

Init ==
  /\ total_duration \in Durations
  /\ speech \in Speeches
  /\ fs = <<>>
  /\ out = [f \in Formats |-> NoFile]
  /\ runs = 0
  /\ pc = "idle"
  /\ split_size = 1 /\ format = "vtt" /\ only_split = FALSE
  /\ index = 0 /\ start_time = 0
  /\ clips = <<>> /\ exports = 0
  /\ fs0 = <<>> /\ out0 = [f \in Formats |-> NoFile] /\ fs_returned = <<>>
  /\ audio_files = <<>> /\ enum_index = 0 /\ transcription = <<>>
  /\ calls = <<>> /\ errors = 0
  /\ seconds = 0 /\ vtt_time = <<>>

FmtUnchanged == UNCHANGED <<seconds, vtt_time>>
NoError == UNCHANGED errors

\* main is invoked; split_file runs up to its loop (lines 138-140, 32-46).
MainStart(s, f, o) ==
  /\ Stopped
  /\ runs < MaxRuns
  /\ Cardinality(DOMAIN fs \cup SplitNames(0, 0, SliceDuration(s), total_duration))
       <= MaxFiles
  /\ runs' = runs + 1
  /\ split_size' = s /\ format' = f /\ only_split' = o
  /\ index' = 0 /\ start_time' = 0
  /\ clips' = <<>> /\ exports' = 0
  /\ fs0' = fs /\ out0' = out /\ fs_returned' = <<>>
  /\ audio_files' = <<>> /\ enum_index' = 0 /\ transcription' = <<>>
  /\ calls' = <<>> /\ errors' = 0
  /\ pc' = "split"
  /\ UNCHANGED <<total_duration, speech, fs, out>>
  /\ FmtUnchanged

\* One iteration whose file exists: "already exists. Skipping..."; index += 1.
SplitSkip ==
  /\ pc = "split"
  /\ InRange(start_time, total_duration)
  /\ Exists(fs, OutputFile)
  /\ clips' = Append(clips, OutputFile)
  /\ index' = index + 1
  /\ start_time' = start_time + SliceDuration(split_size)
  /\ UNCHANGED <<total_duration, speech, fs, out, runs, pc, split_size, format,
                 only_split, exports, fs0, out0, fs_returned,
                 audio_files, enum_index, transcription, calls>>
  /\ NoError
  /\ FmtUnchanged

\* One iteration whose file does not exist: export() opens the destination,
\* which creates it empty.
ExportOpen ==
  /\ pc = "split"
  /\ InRange(start_time, total_duration)
  /\ ~Exists(fs, OutputFile)
  /\ fs' = (OutputFile :> Empty(OutputFile)) @@ fs
  /\ exports' = exports + 1
  /\ pc' = "export"
  /\ UNCHANGED <<total_duration, speech, out, runs, split_size, format, only_split,
                 index, start_time, clips, fs0, out0, fs_returned,
                 audio_files, enum_index, transcription, calls>>
  /\ NoError
  /\ FmtUnchanged

\* export() writes the encoded clip and returns; index += 1.
ExportFinish ==
  /\ pc = "export"
  /\ fs' = (OutputFile :> Complete(OutputFile)) @@ fs
  /\ clips' = Append(clips, OutputFile)
  /\ index' = index + 1
  /\ start_time' = start_time + SliceDuration(split_size)
  /\ pc' = "split"
  /\ UNCHANGED <<total_duration, speech, out, runs, split_size, format, only_split,
                 exports, fs0, out0, fs_returned,
                 audio_files, enum_index, transcription, calls>>
  /\ NoError
  /\ FmtUnchanged

\* The run is aborted between two exports (an exception, a kill).
AbortBetween ==
  /\ pc = "split"
  /\ pc' = "aborted"
  /\ UNCHANGED <<total_duration, speech, fs, out, runs, split_size, format, only_split,
                 index, start_time, clips, exports, fs0, out0, fs_returned,
                 audio_files, enum_index, transcription, calls>>
  /\ NoError
  /\ FmtUnchanged

\* The run is aborted inside export(): the destination stays as the
\* interrupted write left it, empty or cut short.
AbortExport ==
  /\ pc = "export"
  /\ \E audio \in {Empty(OutputFile), Truncated(OutputFile)} :
       fs' = (OutputFile :> audio) @@ fs
  /\ pc' = "aborted"
  /\ UNCHANGED <<total_duration, speech, out, runs, split_size, format, only_split,
                 index, start_time, clips, exports, fs0, out0, fs_returned,
                 audio_files, enum_index, transcription, calls>>
  /\ NoError
  /\ FmtUnchanged

\* The loop ends; split_file returns output_dir.
SplitReturn ==
  /\ pc = "split"
  /\ ~InRange(start_time, total_duration)
  /\ fs_returned' = fs
  /\ pc' = "returned"
  /\ UNCHANGED <<total_duration, speech, fs, out, runs, split_size, format, only_split,
                 index, start_time, clips, exports, fs0, out0,
                 audio_files, enum_index, transcription, calls>>
  /\ NoError
  /\ FmtUnchanged

\* main with only_split: nothing is transcribed or written.
OnlySplitDone ==
  /\ pc = "returned"
  /\ only_split
  /\ pc' = "done"
  /\ UNCHANGED <<total_duration, speech, fs, out, runs, split_size, format, only_split,
                 index, start_time, clips, exports, fs0, out0, fs_returned,
                 audio_files, enum_index, transcription, calls>>
  /\ NoError
  /\ FmtUnchanged

\* get_transcript begins: audio_files = os.listdir(audio_dir), in the order
\* the file system gives; transcription = "".
ListDir ==
  /\ pc = "returned"
  /\ ~only_split
  /\ audio_files' \in Perms(DOMAIN fs)
  /\ enum_index' = 0
  /\ transcription' = <<>>
  /\ pc' = "loop"
  /\ UNCHANGED <<total_duration, speech, fs, out, runs, split_size, format, only_split,
                 index, start_time, clips, exports, fs0, out0, fs_returned, calls>>
  /\ NoError
  /\ FmtUnchanged

\* What one answer adds to transcription (lines 94-98).
Merged(answer, fmt, i, s) ==
  IF fmt = "vtt" THEN convert_to_vtt(answer.segments, i * s)
  ELSE Words(answer.text)

\* One iteration of get_transcript's loop: the next file of the listing is
\* opened and sent to the service, the service answers, the answer is merged.
Respond ==
  /\ pc = "loop"
  /\ enum_index < Len(audio_files)
  /\ LET audio == fs[audio_files[enum_index + 1]]
     IN  /\ audio.hi > audio.lo
         /\ transcription' = transcription
              \o Merged(Transcribe(audio, speech), format, enum_index, split_size)
  /\ calls' = Append(calls, audio_files[enum_index + 1])
  /\ enum_index' = enum_index + 1
  /\ UNCHANGED <<total_duration, speech, fs, out, runs, pc, split_size, format,
                 only_split, index, start_time, clips, exports, fs0, out0,
                 fs_returned, audio_files>>
  /\ NoError
  /\ FmtUnchanged

\* Mutant: the exception is swallowed and the loop goes on.
AfterServiceErrorCaught == "loop"

\* Where an exception of the service call leaves main: nothing catches it.
AfterServiceError == "failed"

\* One iteration in which the service call raises (auth, rate limit,
\* network, unreadable audio).
ServiceError ==
  /\ pc = "loop"
  /\ enum_index < Len(audio_files)
  /\ calls' = Append(calls, audio_files[enum_index + 1])
  /\ errors' = errors + 1
  /\ pc' = AfterServiceError
  /\ enum_index' = IF AfterServiceError = "loop" THEN enum_index + 1
                   ELSE enum_index
  /\ UNCHANGED <<total_duration, speech, fs, out, runs, split_size, format, only_split,
                 index, start_time, clips, exports, fs0, out0, fs_returned,
                 audio_files, transcription>>
  /\ FmtUnchanged

\* get_transcript returns; main writes the document (lines 147-150).
WriteOutput ==
  /\ pc = "loop"
  /\ enum_index = Len(audio_files)
  /\ out' = [out EXCEPT ![format] = runs]
  /\ pc' = "done"
  /\ UNCHANGED <<total_duration, speech, fs, runs, split_size, format, only_split,
                 index, start_time, clips, exports, fs0, out0, fs_returned,
                 audio_files, enum_index, transcription, calls>>
  /\ NoError
  /\ FmtUnchanged

Next ==
  \/ \E s \in SplitSizes, f \in Formats, o \in BOOLEAN : MainStart(s, f, o)
  \/ SplitSkip
  \/ ExportOpen
  \/ ExportFinish
  \/ AbortBetween
  \/ AbortExport
  \/ SplitReturn
  \/ OnlySplitDone
  \/ ListDir
  \/ Respond
  \/ ServiceError
  \/ WriteOutput

Spec == Init /\ [][Next]_vars

\* ------------------------------------------- seconds_to_vtt_time alone
\* Seconds values to format: whole hours up to three digits, the minute and
\* second borders, millisecond parts and a part below the millisecond.
TimeSamples ==
  {((h * 3600 + m * 60 + sec) * 1000 + ms) * TicksPerMs + sub :
     h \in {0, 1, 99, 100}, m \in {0, 2, 59}, sec \in {0, 5, 59},
     ms \in {0, 400, 999}, sub \in {0, TicksPerMs - 1}}

InitFmt ==
  /\ total_duration \in {60000}
  /\ speech \in {"halves"}
  /\ fs = <<>>
  /\ out = [f \in Formats |-> NoFile]
  /\ runs = 0
  /\ pc = "fmt"
  /\ split_size = 1 /\ format = "vtt" /\ only_split = FALSE
  /\ index = 0 /\ start_time = 0
  /\ clips = <<>> /\ exports = 0
  /\ fs0 = <<>> /\ out0 = [f \in Formats |-> NoFile] /\ fs_returned = <<>>
  /\ audio_files = <<>> /\ enum_index = 0 /\ transcription = <<>>
  /\ calls = <<>> /\ errors = 0
  /\ seconds \in TimeSamples /\ vtt_time = <<>>

Format ==
  /\ pc = "fmt"
  /\ vtt_time' = seconds_to_vtt_time(seconds)
  /\ pc' = "formatted"
  /\ UNCHANGED <<total_duration, speech, fs, out, runs, split_size, format, only_split,
                 index, start_time, clips, exports, fs0, out0, fs_returned,
                 audio_files, enum_index, transcription, calls, errors,
                 seconds>>

NextFmt == Format

SpecFmt == InitFmt /\ [][NextFmt]_vars

\* ------------------------------------------------ reading a document back
DigitValue(ch) ==
  CASE ch = "0" -> 0 [] ch = "1" -> 1 [] ch = "2" -> 2 [] ch = "3" -> 3
    [] ch = "4" -> 4 [] ch = "5" -> 5 [] ch = "6" -> 6 [] ch = "7" -> 7
    [] ch = "8" -> 8 [] ch = "9" -> 9 [] OTHER -> -1

IsDigit(ch) == DigitValue(ch) >= 0

RECURSIVE Number(_)
Number(cs) == IF cs = <<>> THEN 0
              ELSE 10 * Number(SubSeq(cs, 1, Len(cs) - 1)) + DigitValue(cs[Len(cs)])

\* The fields of a timestamp H..H:MM:SS.mmm, counted from its end.
HoursOf(c) == SubSeq(c, 1, Len(c) - 10)
MinutesOf(c) == SubSeq(c, Len(c) - 8, Len(c) - 7)
SecondsOf(c) == SubSeq(c, Len(c) - 5, Len(c) - 4)
MillisOf(c) == SubSeq(c, Len(c) - 2, Len(c))

WellFormedTime(c) ==
  /\ Len(c) >= 12
  /\ c[Len(c) - 9] = ":" /\ c[Len(c) - 6] = ":" /\ c[Len(c) - 3] = "."
  /\ \A i \in 1..Len(c) :
       i \notin {Len(c) - 9, Len(c) - 6, Len(c) - 3} => IsDigit(c[i])
  /\ (Len(HoursOf(c)) > 2 => c[1] # "0")
  /\ Number(MinutesOf(c)) \in 0..59
  /\ Number(SecondsOf(c)) \in 0..59
  /\ Number(MillisOf(c)) \in 0..999

\* The time a timestamp denotes, in milliseconds.
TimeOf(c) ==
  Number(HoursOf(c)) * 3600000 + Number(MinutesOf(c)) * 60000
    + Number(SecondsOf(c)) * 1000 + Number(MillisOf(c))

Ceil(a, b) == (a + b - 1) \div b

\* The slice in milliseconds and the clip the claims expect at place i
\* (counted from 0) for the running invocation.
NominalSlice == split_size * 60000
NominalClip(i) ==
  <<i, i * NominalSlice, Min((i + 1) * NominalSlice, total_duration)>>
NominalClips ==
  [i \in 1..Ceil(total_duration, NominalSlice) |-> NominalClip(i - 1)]
Range(f) == {f[i] : i \in DOMAIN f}

\* C1: split_file computes exactly ceil(D/S) clips, clip i named and cut as
\* [i*S, min((i+1)*S, D)), in ascending order, each of positive duration,
\* contiguous from 0 to D, each present on disk when split_file returns and
\* holding exactly its range when this invocation exported it.
C1_Segmentation ==
  /\ pc \in {"split", "export", "returned"} =>
       /\ Len(clips) <= Len(NominalClips)
       /\ \A i \in 1..Len(clips) :
            /\ clips[i] = NominalClips[i]
            /\ clips[i][3] > clips[i][2]
            /\ (i > 1 => clips[i][2] = clips[i - 1][3])
            /\ clips[i] \in DOMAIN fs
            /\ (clips[i] \notin DOMAIN fs0 =>
                  fs[clips[i]] = [lo |-> clips[i][2], hi |-> clips[i][3]])
  /\ pc = "returned" =>
       /\ clips = NominalClips
       /\ clips[1][2] = 0
       /\ clips[Len(clips)][3] = total_duration

\* split_file has returned from a recording of exactly two slices.
C1_Witness ==
  /\ pc = "returned"
  /\ total_duration = 2 * NominalSlice
  /\ Len(clips) = 2
  /\ exports = 2

\* C6: when every clip file of this source and slice size exists as
\* split_file starts, the invocation exports nothing and the directory
\* stays as it was, file for file.
C6_Idempotent ==
  (pc # "idle" /\ pc # "fmt" /\ Range(NominalClips) \subseteq DOMAIN fs0) =>
     /\ exports = 0
     /\ fs = fs0

\* A second invocation of split_file has returned over the clips of the first.
C6_Witness ==
  /\ pc = "returned"
  /\ runs = 2
  /\ Len(clips) >= 2
  /\ Range(NominalClips) \subseteq DOMAIN fs0
  /\ \A n \in DOMAIN fs : fs[n] = [lo |-> n[2], hi |-> n[3]]

\* C5: once a service call has raised, the invocation has stopped there: the
\* files sent are those of the listing up to the failing one, no output file
\* was written, and the clip directory is as split_file left it, with every
\* clip of this invocation in it.
C5_FailureAborts ==
  errors > 0 =>
    /\ pc = "failed"
    /\ errors = 1
    /\ calls = SubSeq(audio_files, 1, enum_index + 1)
    /\ out = out0
    /\ fs = fs_returned
    /\ Range(clips) \subseteq DOMAIN fs

\* The call for a middle clip raised, after an earlier invocation had written
\* an output file.
C5_Witness ==
  /\ pc = "failed"
  /\ Len(audio_files) = 3
  /\ audio_files = clips
  /\ enum_index = 1
  /\ out[format] # NoFile

\* Number of items of the vtt document before the cues of the k-th answer.
RECURSIVE ItemsBefore(_)
ItemsBefore(k) ==
  IF k = 1 THEN 1
  ELSE ItemsBefore(k - 1) + Len(Transcribe(fs[calls[k - 1]], speech).segments)

\* C3: with the listing equal to this invocation's clips in index order,
\* each segment of the clip with index i is emitted, in vtt output, with
\* start and end both moved by i * S * 60 seconds.
C3_Rebase ==
  (pc \in {"loop", "done", "failed"} /\ format = "vtt" /\ audio_files = clips) =>
    \A k \in 1..enum_index :
      LET segments == Transcribe(fs[calls[k]], speech).segments
          i == calls[k][1]
          shift == i * split_size * 60 * 1000
      IN  \A j \in 1..Len(segments) :
            LET cue == transcription[ItemsBefore(k) + j]
            IN  /\ cue.kind = "cue"
                /\ TimeOf(cue.start) = segments[j].start \div TicksPerMs + shift
                /\ TimeOf(cue.end) = segments[j].end \div TicksPerMs + shift
                /\ cue.text = segments[j].text

\* Three clips listed in index order have been merged into a vtt document.
C3_Witness ==
  /\ pc = "done"
  /\ format = "vtt"
  /\ audio_files = clips
  /\ Len(clips) = 3
  /\ TimeOf(transcription[Len(transcription)].start) >= 2 * split_size * 60000

\* Place of file n in the sequence of calls (0 when it was not sent).
PlaceIn(seq, n) ==
  IF \E k \in 1..Len(seq) : seq[k] = n
  THEN CHOOSE k \in 1..Len(seq) : seq[k] = n
  ELSE 0

\* C2: get_transcript sends this invocation's clips in ascending order of
\* the index in their names, whatever order the listing has.
C2_IndexOrder ==
  \A a, b \in 1..Len(calls) :
    (a < b /\ calls[a] \in Range(clips) /\ calls[b] \in Range(clips))
      => calls[a][1] < calls[b][1]

\* C9: an invocation that transcribes sends each clip of its own
\* segmentation exactly once and nothing else.
C9_OneCallPerClip ==
  (pc = "done" /\ ~only_split) =>
    /\ Len(calls) = Ceil(total_duration, NominalSlice)
    /\ Range(calls) = Range(NominalClips)

\* The text the service gives for the clips of this invocation, in index order.
RECURSIVE TextUpTo(_)
TextUpTo(i) ==
  IF i = 0 THEN <<>>
  ELSE TextUpTo(i - 1) \o Words(Transcribe(fs[NominalClips[i]], speech).text)

\* C7: the txt document is the texts of the clips, concatenated in index
\* order, and nothing else.
C7_FlatText ==
  (pc = "done" /\ ~only_split /\ format = "txt") =>
    transcription = TextUpTo(Len(NominalClips))

\* Places in the vtt document of the cues the k-th answer added.
CuesOf(k) ==
  {p \in 1..Len(transcription) : ItemsBefore(k) < p /\ p <= ItemsBefore(k + 1)}

\* C4: a vtt document over one or more clips starts with the header, holds
\* it once, and every cue of clip i comes before, and starts before, every
\* cue of clip i + 1.
C4_HeaderAndOrder ==
  (pc = "done" /\ ~only_split /\ format = "vtt" /\ Len(calls) >= 1) =>
    /\ transcription[1] = Header
    /\ \A p \in 2..Len(transcription) : transcription[p].kind = "cue"
    /\ \A i \in 1..(Len(NominalClips) - 1) :
         LET ka == PlaceIn(calls, NominalClips[i])
             kb == PlaceIn(calls, NominalClips[i + 1])
         IN  /\ ka > 0 /\ kb > 0 /\ ka < kb
             /\ \A p \in CuesOf(ka), q \in CuesOf(kb) :
                  /\ p < q
                  /\ TimeOf(transcription[p].start) < TimeOf(transcription[q].start)

\* C10: when split_file returns, every clip of its segmentation is on disk
\* with its complete audio, also when an earlier invocation with the same
\* arguments was aborted.
C10_Resumable ==
  pc = "returned" =>
    \A i \in 1..Len(NominalClips) :
      /\ NominalClips[i] \in DOMAIN fs
      /\ fs[NominalClips[i]] = [lo |-> NominalClips[i][2], hi |-> NominalClips[i][3]]
====
